---- MODULE Spec2Model ----
(***************************************************************************)
(* Model of the syncit Sync Controller: the controller loop, the rumors    *)
(* event handler, the index store and the sync directory.                  *)
(*                                                                         *)
(* Option<T> is a sequence: <<>> is None, <<x>> is Some(x).                *)
(* A file's bytes are a sequence of small integers; 0 is the zero byte.    *)
(* update_time and the wall clock count ticks, NANOS_PER_SEC ticks to the  *)
(* second.                                                                 *)
(***************************************************************************)
EXTENDS Integers, Sequences, FiniteSets, TLC

\* ------------------------------------------------------------------ bounds

\* largest generation a rumor carries or a local bump produces
MaxGen == 2
\* largest update_time (in ticks) a remote rumor carries
MaxTime == 2
\* the wall clock stops at this tick
MaxClock == 1
\* most rumors in one Rumors event
MaxBatch == 1
\* most temp files waiting for their deferred unlink
MaxTemps == 1
\* largest generation a local bump produces in the runs that follow one file
\* through a longer history
MaxBump == 3
\* the largest number of rumors of a batch in the runs that follow whole batches
MaxRumors == 2
\* the largest number of watch events of a batch in the runs that follow one file
MaxEvents == 2
\* the largest number of SendRumors in flight to one peer in the runs of two peers
MaxInbox == 2
\* the longest file (in bytes) in the runs that hash files and compare block lists
MaxLen == 3
\* the most raw events that wait in the watcher's channel
MaxRaw == 2

\* ------------------------------------------------------- program constants

\* index::BLOCK_SIZE, scaled from 4 MiB to 2 bytes
BLOCK_SIZE == 2
\* ticks per second: Duration::as_secs drops what is below one second
NANOS_PER_SEC == 2

\* the names peers gossip about
Names == {"a"}
\* the names of the sync directory of a peer that runs alone
LocalNames == {"a", "b"}
LocalUser == "local"
RemoteUsers == {"peer"}

\* the file contents the peers and the user write
Contents == {<<1, 2>>, <<1, 2, 1>>, <<2>>}

\* ----------------------------------------------------------------- helpers

Min(a, b) == IF a < b THEN a ELSE b

Range(s) == {s[i] : i \in 1..Len(s)}

\* ------------------------------------------------------------------ hashing

\* [0; 32], the marker of a deleted detail
ZeroHash == <<0>>

\* SHA-256 of a byte string: injective, never the all-zero digest
Sha256(bytes) == <<1>> \o bytes

\* BytesMut::zeroed(BLOCK_SIZE)
ZeroBuf == [i \in 1..BLOCK_SIZE |-> 0]

\* read_fill: the first n bytes of buf are overwritten, the rest is kept
read_fill(data, buf) ==
    LET n == Min(BLOCK_SIZE, Len(data))
    IN  [n |-> n, buf |-> [i \in 1..BLOCK_SIZE |-> IF i <= n THEN data[i] ELSE buf[i]]]

RECURSIVE hash_loop(_, _, _, _, _)
hash_loop(data, buf, offset, blocks, fed) ==
    LET r == read_fill(data, buf)
        \* hasher.update(&buf) and block_hasher.update(&buf) feed the whole buffer
        block == [offset |-> offset, len |-> r.n, hash_sum |-> Sha256(r.buf)]
        blocks2 == Append(blocks, block)
        fed2 == fed \o r.buf
    IN  IF r.n < BLOCK_SIZE
        THEN [hash_sum |-> Sha256(fed2),
              block_chain |-> [block_size |-> BLOCK_SIZE, blocks |-> blocks2]]
        ELSE hash_loop(SubSeq(data, r.n + 1, Len(data)), r.buf, offset + r.n, blocks2, fed2)

hash_file(data) == hash_loop(data, ZeroBuf, 0, <<>>, <<>>)

\* ------------------------------------------------------------- index model

\* FileDetail of a live file with the given bytes
LiveDetail(gen, bytes) ==
    LET h == hash_file(bytes)
    IN  [gen |-> gen, hash_sum |-> h.hash_sum, block_chain |-> <<h.block_chain>>,
         deleted |-> FALSE]

\* FileDetail of a deleted file
DeletedDetail(gen) ==
    [gen |-> gen, hash_sum |-> ZeroHash, block_chain |-> <<>>, deleted |-> TRUE]

\* old_info.block_chain.take()
StripChain(detail) == [detail EXCEPT !.block_chain = <<>>]

\* hex::encode / hex::decode
HexEncode(hash) == <<9>> \o hash
HexDecode(str) == Tail(str)

\* one row of file_details
DbFileDetail(detail) ==
    [gen |-> detail.gen,
     hash_sum |-> IF detail.hash_sum = ZeroHash THEN <<>> ELSE HexEncode(detail.hash_sum),
     block_chain |-> detail.block_chain,
     deleted |-> detail.deleted]

\* the rows create_file inserts: one index_files row, one file_details row per detail
DbCreate(file) ==
    [kind |-> file.kind,
     gen |-> file.detail.gen,
     update_time |-> file.update_time \div NANOS_PER_SEC,
     update_by |-> file.update_by,
     details |-> {DbFileDetail(d) : d \in {file.detail} \cup Range(file.previous_details)}]

\* SELECT ... ORDER BY gen DESC
RECURSIVE OrderByGenDesc(_)
OrderByGenDesc(rows) ==
    IF rows = {} THEN <<>>
    ELSE LET top == CHOOSE r \in rows : \A q \in rows : q.gen <= r.gen
         IN  <<top>> \o OrderByGenDesc(rows \ {top})

FromDbDetail(row) ==
    [gen |-> row.gen,
     hash_sum |-> IF row.hash_sum = <<>> THEN ZeroHash ELSE HexDecode(row.hash_sum),
     block_chain |-> row.block_chain,
     deleted |-> row.deleted]

\* construct_file: the IndexFile read back from the rows
construct_file(name, db) ==
    LET rows == OrderByGenDesc(db.details)
        file_details == [i \in 1..Len(rows) |-> FromDbDetail(rows[i])]
    IN  [filename |-> name,
         kind |-> db.kind,
         detail |-> Head(file_details),
         previous_details |-> Tail(file_details),
         update_time |-> db.update_time * NANOS_PER_SEC,
         update_by |-> db.update_by]

\* IndexGuard::get_file on a table (a function from names to Option<rows>)
get_file(table, name) ==
    IF table[name] = <<>> THEN <<>> ELSE <<construct_file(name, table[name][1])>>

\* IndexGuard::create_file
create_file(table, file) == [table EXCEPT ![file.filename] = <<DbCreate(file)>>]

\* IndexGuard::update_file: delete the rows of the name, then create_file
update_file(table, file) == create_file([table EXCEPT ![file.filename] = <<>>], file)

\* ------------------------------------------------------------- file system

\* File::set_len: truncate, or extend with zero bytes
set_len(bytes, size) ==
    [i \in 1..size |-> IF i <= Len(bytes) THEN bytes[i] ELSE 0]

\* AsyncFileExt::write_at: positional write, the file grows when needed
write_at(bytes, data, offset) ==
    LET end == IF offset + Len(data) > Len(bytes) THEN offset + Len(data) ELSE Len(bytes)
    IN  [i \in 1..end |->
            IF i > offset /\ i <= offset + Len(data) THEN data[i - offset]
            ELSE IF i <= Len(bytes) THEN bytes[i] ELSE 0]

\* AsyncFileCopy::copy(target, 0, 0, metadata.len()) onto a fresh file
copy(origin, target) == write_at(target, origin, 0)

\* block_chain.blocks.iter().map(|block| block.len).sum()
RECURSIVE file_size(_)
file_size(blocks) ==
    IF blocks = <<>> THEN 0 ELSE Head(blocks).len + file_size(Tail(blocks))

\* --------------------------------------------------------------- transfer

DownloadBlockRequest(filename, block) ==
    [filename |-> filename, offset |-> block.offset, len |-> block.len,
     hash_sum |-> block.hash_sum]

\* blocks_to_download_block_requests leaving out the last block
blocks_to_download_block_requests_short(filename, blocks) ==
    [i \in 1..(Len(blocks) - 1) |-> DownloadBlockRequest(filename, blocks[i])]

blocks_to_download_block_requests(filename, blocks) ==
    [i \in 1..Len(blocks) |-> DownloadBlockRequest(filename, blocks[i])]

\* compare_blocks taking two blocks for equal when their hashes are equal
RECURSIVE compare_blocks_by_hash(_, _, _)
compare_blocks_by_hash(filename, left_blocks, right_blocks) ==
    IF left_blocks = <<>> THEN <<>>
    ELSE LET rest == compare_blocks_by_hash(filename, Tail(left_blocks),
                                            IF right_blocks = <<>> THEN <<>> ELSE Tail(right_blocks))
         IN  IF right_blocks # <<>> /\ Head(left_blocks).hash_sum = Head(right_blocks).hash_sum
             THEN rest
             ELSE <<DownloadBlockRequest(filename, Head(left_blocks))>> \o rest

\* zip_longest(left, right).filter_map(...): a request for every remote block that
\* differs from the local block at the same index or has no local block
RECURSIVE compare_blocks(_, _, _)
compare_blocks(filename, left_blocks, right_blocks) ==
    IF left_blocks = <<>> THEN <<>>
    ELSE LET rest == compare_blocks(filename, Tail(left_blocks),
                                    IF right_blocks = <<>> THEN <<>> ELSE Tail(right_blocks))
         IN  IF right_blocks # <<>> /\ Head(left_blocks) = Head(right_blocks)
             THEN rest
             ELSE <<DownloadBlockRequest(filename, Head(left_blocks))>> \o rest

\* what the download stream may do: yield every requested block ("all"), yield
\* None for its first item ("none"), or fail ("error")
DownloadOutcomes == {"all", "none", "error"}

\* DownloadTransfer::download: the source peer serves the bytes of its file
BlockStream(requests, source, dl) ==
    [i \in 1..Len(requests) |->
        IF dl = "none" /\ i = 1 THEN <<>>
        ELSE <<[offset |-> requests[i].offset,
                data |-> SubSeq(source, requests[i].offset + 1,
                                requests[i].offset + requests[i].len)]>>]

\* the writes of sync_file are futures that run only when the stream has ended
RECURSIVE write_all(_, _)
write_all(bytes, stream) ==
    IF stream = <<>> THEN bytes
    ELSE write_all(write_at(bytes, Head(stream)[1].data, Head(stream)[1].offset), Tail(stream))

\* sync_file: false (and no write) as soon as the stream yields None
sync_file(bytes, block_stream) ==
    IF \E i \in 1..Len(block_stream) : block_stream[i] = <<>>
    THEN [synced |-> FALSE, bytes |-> bytes, writes |-> 0]
    ELSE [synced |-> TRUE, bytes |-> write_all(bytes, block_stream),
          writes |-> Len(block_stream)]

\* what sync_file did: its writes, or the None it met
SyncLog(s) == IF s.synced THEN [i \in 1..s.writes |-> "write_at"] ELSE <<"none">>

\* ---------------------------------------------------------- rumors handler

\* what one handle_rumor call did: the branch taken, its result ("new" is Ok(true),
\* "old" is Ok(false), "err" is Err), the committed table, the bytes at the target
\* path, the conflict file created, the temp files left for the deferred unlink,
\* and the file-system and index operations in program order
Outcome(path, result, table, file, conflict, temps, log) ==
    [path |-> path, result |-> result, table |-> table, file |-> file,
     conflict |-> conflict, temps |-> temps, log |-> log]

\* the name create_conflict_file_from gives the conflict file: the second of now
ConflictName(filename, now) == <<filename, now \div NANOS_PER_SEC>>

\* the no-local-entry branch without its remove_file
handle_no_local_keeps_file(table, file, remote_index_file, source, dl) ==
    Outcome("create_deleted", "new", create_file(table, remote_index_file), file, <<>>, 0,
            <<"index_create", "commit">>)

\* handle_rumor, no local entry
handle_no_local(table, file, remote_index_file, source, dl) ==
    LET guard == create_file(table, remote_index_file)
    IN  IF remote_index_file.detail.deleted
        THEN Outcome("create_deleted", "new", guard, <<>>, <<>>, 0,
                     <<"index_create", "remove_file", "commit">>)
        ELSE IF remote_index_file.detail.block_chain = <<>>
        THEN Outcome("create", "err", table, file, <<>>, 1,
                     <<"index_create", "create_temp">>)
        ELSE
        LET blocks == remote_index_file.detail.block_chain[1].blocks
            temp == set_len(<<>>, file_size(blocks))
            requests == blocks_to_download_block_requests(remote_index_file.filename, blocks)
            log == <<"index_create", "create_temp", "set_len", "download">>
        IN  IF dl = "error"
            THEN Outcome("create", "err", table, file, <<>>, 1, log)
            ELSE LET s == sync_file(temp, BlockStream(requests, source, dl))
                 IN  IF ~s.synced
                     THEN Outcome("create", "old", table, file, <<>>, 1, log \o SyncLog(s))
                     ELSE Outcome("create", "new", guard, <<s.bytes>>, <<>>, 0,
                                  log \o SyncLog(s) \o <<"rename", "commit">>)

\* handle_gen_eq
handle_gen_eq(table, file, taken, now, remote_index_file, local_index_file, source, dl) ==
    IF remote_index_file = local_index_file
    THEN Outcome("eq_same", "old", table, file, <<>>, 0, <<>>)
    ELSE IF remote_index_file.update_time < local_index_file.update_time
    THEN Outcome("eq_local", "old", table, file, <<>>, 0, <<>>)
    ELSE IF remote_index_file.update_time > local_index_file.update_time
    THEN
        LET guard == update_file(table, remote_index_file)
        IN  IF remote_index_file.detail.deleted
            THEN IF file = <<>>
                 THEN \* fs::remove_file(&path).await?: NotFound is an error here
                      Outcome("eq_remote_deleted", "err", table, file, <<>>, 0,
                              <<"index_update", "remove_file">>)
                 ELSE Outcome("eq_remote_deleted", "new", guard, <<>>, <<>>, 0,
                              <<"index_update", "remove_file", "commit">>)
            ELSE IF ~local_index_file.detail.deleted /\ file = <<>>
            THEN \* File::open(&path) fails
                 Outcome("eq_remote", "err", table, file, <<>>, 0, <<"index_update", "open">>)
            ELSE IF ~local_index_file.detail.deleted
                    /\ ConflictName(remote_index_file.filename, now) \in taken
            THEN \* create_new(true) on an existing conflict file
                 Outcome("eq_remote", "err", table, file, <<>>, 0,
                         <<"index_update", "open", "create_conflict">>)
            ELSE
            LET conflict == IF local_index_file.detail.deleted THEN <<>>
                            ELSE <<[name |-> ConflictName(remote_index_file.filename, now),
                                    bytes |-> copy(file[1], <<>>)]>>
                log1 == <<"index_update">> \o
                        (IF local_index_file.detail.deleted THEN <<>>
                         ELSE <<"open", "create_conflict", "copy">>)
            IN  IF remote_index_file.detail.block_chain = <<>>
                THEN Outcome("eq_remote", "err", table, file, conflict, 0, log1)
                ELSE
                LET blocks == remote_index_file.detail.block_chain[1].blocks
                    temp == set_len(<<>>, file_size(blocks))
                    requests == blocks_to_download_block_requests(
                                    remote_index_file.filename, blocks)
                    log2 == log1 \o <<"create_temp", "set_len", "download">>
                IN  IF dl = "error"
                    THEN Outcome("eq_remote", "err", table, file, conflict, 1, log2)
                    ELSE \* the result of sync_file is not looked at
                         LET s == sync_file(temp, BlockStream(requests, source, dl))
                         IN  Outcome("eq_remote", "new", guard, <<s.bytes>>, conflict, 0,
                                     log2 \o SyncLog(s) \o <<"rename", "commit">>)
    ELSE Outcome("eq_tie", "old", table, file, <<>>, 0, <<>>)

\* handle_local_is_latest writing the rumor to the index
handle_local_is_latest_applies(table, file, remote_index_file, local_index_file) ==
    Outcome("local_latest", "new", update_file(table, remote_index_file), file, <<>>, 0,
            <<"index_update", "commit">>)

\* handle_local_is_latest: both branches only log
handle_local_is_latest(table, file, remote_index_file, local_index_file) ==
    Outcome("local_latest", "old", table, file, <<>>, 0, <<>>)

\* remote's history holds local's current detail
InHistory(remote_index_file, local_index_file) ==
    \E i \in 1..Len(remote_index_file.previous_details) :
        /\ remote_index_file.previous_details[i].gen = local_index_file.detail.gen
        /\ remote_index_file.previous_details[i].hash_sum = local_index_file.detail.hash_sum

\* handle_remote_is_latest
handle_remote_is_latest(table, file, taken, now, remote_index_file, local_index_file, source, dl) ==
    IF InHistory(remote_index_file, local_index_file)
    THEN
        LET guard == update_file(table, remote_index_file)
        IN  IF remote_index_file.detail.deleted
            THEN Outcome("ff_deleted", "new", guard, <<>>, <<>>, 0,
                         <<"index_update", "remove_file", "commit">>)
            ELSE IF file = <<>>
            THEN \* File::open(&path) fails after the temp file was created
                 Outcome("ff", "err", table, file, <<>>, 1,
                         <<"index_update", "create_temp", "open">>)
            ELSE IF remote_index_file.detail.block_chain = <<>>
            THEN Outcome("ff", "err", table, file, <<>>, 1,
                         <<"index_update", "create_temp", "open", "copy">>)
            ELSE
            LET blocks == remote_index_file.detail.block_chain[1].blocks
                temp == set_len(copy(file[1], <<>>), file_size(blocks))
                requests ==
                    IF local_index_file.detail.block_chain = <<>>
                    THEN blocks_to_download_block_requests(remote_index_file.filename, blocks)
                    ELSE compare_blocks(remote_index_file.filename, blocks,
                                        local_index_file.detail.block_chain[1].blocks)
                log == <<"index_update", "create_temp", "open", "copy", "set_len", "download">>
            IN  IF dl = "error"
                THEN Outcome("ff", "err", table, file, <<>>, 1, log)
                ELSE \* the result of sync_file is not looked at
                     LET s == sync_file(temp, BlockStream(requests, source, dl))
                     IN  Outcome("ff", "new", guard, <<s.bytes>>, <<>>, 0,
                                 log \o SyncLog(s) \o <<"rename", "commit">>)
    ELSE IF file = <<>>
    THEN \* File::open(&path) fails
         Outcome("conflict", "err", table, file, <<>>, 0, <<"open">>)
    ELSE IF ConflictName(remote_index_file.filename, now) \in taken
    THEN Outcome("conflict", "err", table, file, <<>>, 0, <<"open", "create_conflict">>)
    ELSE
    LET conflict == <<[name |-> ConflictName(remote_index_file.filename, now),
                       bytes |-> copy(file[1], <<>>)]>>
        log1 == <<"open", "create_conflict", "copy">>
    IN  IF remote_index_file.detail.block_chain = <<>>
        THEN Outcome("conflict", "err", table, file, conflict, 0, log1)
        ELSE
        LET blocks == remote_index_file.detail.block_chain[1].blocks
            temp == set_len(<<>>, file_size(blocks))
            requests == blocks_to_download_block_requests(remote_index_file.filename, blocks)
            log2 == log1 \o <<"create_temp", "set_len", "download">>
        IN  IF dl = "error"
            THEN Outcome("conflict", "err", table, file, conflict, 1, log2)
            ELSE \* the result of sync_file is not looked at, and the guard holds no write
                 LET s == sync_file(temp, BlockStream(requests, source, dl))
                 IN  Outcome("conflict", "new", table, <<s.bytes>>, conflict, 0,
                             log2 \o SyncLog(s) \o <<"rename", "commit">>)

\* handle_rumor with Ordering::Equal matched like Ordering::Less
handle_rumor_equal_as_less(table, file, taken, now, remote_index_file, source, dl) ==
    LET local == get_file(table, remote_index_file.filename)
    IN  IF local = <<>>
        THEN handle_no_local(table, file, remote_index_file, source, dl)
        ELSE IF local[1].detail.gen <= remote_index_file.detail.gen
        THEN handle_remote_is_latest(table, file, taken, now, remote_index_file, local[1],
                                     source, dl)
        ELSE handle_local_is_latest(table, file, remote_index_file, local[1])

\* handle_rumor
handle_rumor(table, file, taken, now, remote_index_file, source, dl) ==
    LET local == get_file(table, remote_index_file.filename)
    IN  IF local = <<>>
        THEN handle_no_local(table, file, remote_index_file, source, dl)
        ELSE IF local[1].detail.gen < remote_index_file.detail.gen
        THEN handle_remote_is_latest(table, file, taken, now, remote_index_file, local[1],
                                     source, dl)
        ELSE IF local[1].detail.gen = remote_index_file.detail.gen
        THEN handle_gen_eq(table, file, taken, now, remote_index_file, local[1], source, dl)
        ELSE handle_local_is_latest(table, file, remote_index_file, local[1])

\* ----------------------------------------------------------- watch handler

\* the bump of the watch handler that keeps the hash of the old detail in a
\* deleted detail
watch_bump_keeps_hash(index_file, hash_sum, block_chain, deleted) ==
    [index_file EXCEPT
        !.detail = [gen |-> index_file.detail.gen + 1,
                    hash_sum |-> IF deleted THEN index_file.detail.hash_sum ELSE hash_sum,
                    block_chain |-> block_chain, deleted |-> deleted],
        !.previous_details = Append(@, StripChain(index_file.detail))]

\* gen + 1, the old detail pushed with its chain taken; the watch handler leaves
\* update_time and update_by as they were
watch_bump(index_file, hash_sum, block_chain, deleted) ==
    [index_file EXCEPT
        !.detail = [gen |-> index_file.detail.gen + 1, hash_sum |-> hash_sum,
                    block_chain |-> block_chain, deleted |-> deleted],
        !.previous_details = Append(@, StripChain(index_file.detail))]

\* IndexFile { gen: 1, ..., update_time: SystemTime::now(), update_by: user_id }
new_index_file(name, hashed, now) ==
    [filename |-> name, kind |-> "File",
     detail |-> [gen |-> 1, hash_sum |-> hashed.hash_sum,
                 block_chain |-> <<hashed.block_chain>>, deleted |-> FALSE],
     previous_details |-> <<>>,
     update_time |-> now,
     update_by |-> LocalUser]

\* what a watch-event handler returns: Ok(rumors) with the writes of its guard, or Err
WatchOk(table, rumors) == [ok |-> TRUE, table |-> table, rumors |-> rumors]
WatchErr(table) == [ok |-> FALSE, table |-> table, rumors |-> <<>>]

\* the same part without the comparison of the hashes
handle_existing_file_always_bumps(table, bytes, now, name, io_error) ==
    IF io_error THEN WatchErr(table)
    ELSE
    LET hashed == hash_file(bytes)
        local == get_file(table, name)
    IN  IF local = <<>>
        THEN LET index_file == new_index_file(name, hashed, now)
             IN  WatchOk(create_file(table, index_file), <<index_file>>)
        ELSE LET index_file == watch_bump(local[1], hashed.hash_sum,
                                          <<hashed.block_chain>>, FALSE)
             IN  WatchOk(update_file(table, index_file), <<index_file>>)

\* the part handle_add_watch_event and handle_modify_watch_event share: the file
\* was opened
handle_existing_file(table, bytes, now, name, io_error) ==
    IF io_error THEN WatchErr(table)
    ELSE
    LET hashed == hash_file(bytes)
        local == get_file(table, name)
    IN  IF local = <<>>
        THEN LET index_file == new_index_file(name, hashed, now)
             IN  WatchOk(create_file(table, index_file), <<index_file>>)
        ELSE IF ~local[1].detail.deleted /\ local[1].detail.hash_sum = hashed.hash_sum
        THEN WatchOk(table, <<>>)
        ELSE LET index_file == watch_bump(local[1], hashed.hash_sum,
                                          <<hashed.block_chain>>, FALSE)
             IN  WatchOk(update_file(table, index_file), <<index_file>>)

\* the delete bump that also bumps an entry already deleted
delete_bump_deleted_again(table, name) ==
    LET local == get_file(table, name)
    IN  IF local = <<>>
        THEN WatchOk(table, <<>>)
        ELSE LET index_file == watch_bump(local[1], ZeroHash, <<>>, TRUE)
             IN  WatchOk(update_file(table, index_file), <<index_file>>)

\* the delete bump of the entry of a name, when it has a live entry
delete_bump(table, name) ==
    LET local == get_file(table, name)
    IN  IF local = <<>> \/ local[1].detail.deleted
        THEN WatchOk(table, <<>>)
        ELSE LET index_file == watch_bump(local[1], ZeroHash, <<>>, TRUE)
             IN  WatchOk(update_file(table, index_file), <<index_file>>)

handle_add_watch_event(table, files, now, name, io_error) ==
    IF files[name] = <<>>
    THEN WatchOk(table, <<>>)
    ELSE handle_existing_file(table, files[name][1], now, name, io_error)

handle_modify_watch_event(table, files, now, name, io_error) ==
    IF files[name] = <<>>
    THEN delete_bump(table, name)
    ELSE handle_existing_file(table, files[name][1], now, name, io_error)

handle_delete_watch_event(table, name) == delete_bump(table, name)

\* the rename handler that treats the new name as an Add event does
handle_rename_compares_hash(table, files, now, old_name, new_name, io_error) ==
    IF files[new_name] = <<>>
    THEN LET old == delete_bump(table, old_name)
         IN  IF old.rumors = <<>>
             THEN WatchOk(table, <<>>)
             ELSE LET new == delete_bump(old.table, new_name)
                  IN  WatchOk(new.table, old.rumors \o new.rumors)
    ELSE IF io_error THEN WatchErr(table)
    ELSE
    LET old == delete_bump(table, old_name)
        new == handle_existing_file(old.table, files[new_name][1], now, new_name, FALSE)
    IN  WatchOk(new.table, old.rumors \o new.rumors)

handle_rename_watch_event(table, files, now, old_name, new_name, io_error) ==
    IF files[new_name] = <<>>
    THEN LET old == delete_bump(table, old_name)
         IN  IF old.rumors = <<>>
             THEN WatchOk(table, <<>>)
             ELSE LET new == delete_bump(old.table, new_name)
                  IN  WatchOk(new.table, old.rumors \o new.rumors)
    ELSE IF io_error THEN WatchErr(table)
    ELSE
    LET hashed == hash_file(files[new_name][1])
        old == delete_bump(table, old_name)
        local == get_file(old.table, new_name)
        index_file ==
            IF local = <<>>
            THEN new_index_file(new_name, hashed, now)
            ELSE watch_bump(local[1], hashed.hash_sum, <<hashed.block_chain>>, FALSE)
    IN  WatchOk(IF local = <<>> THEN create_file(old.table, index_file)
                ELSE update_file(old.table, index_file),
                old.rumors \o <<index_file>>)

\* the events the watcher reports on the names: a rename is between two paths
WatchEvents(names) ==
    {[type |-> t, name |-> n, new_name |-> n] : t \in {"Add", "Modify", "Delete"}, n \in names}
    \cup {[type |-> "Rename", name |-> p[1], new_name |-> p[2]] :
                p \in {q \in names \X names : q[1] # q[2]}}

\* the handler of the event calls the index guard: every handler does, but for
\* handle_add_watch_event on a file that is gone
reads_index(files, event) == ~(event.type = "Add" /\ files[event.name] = <<>>)

\* the match of handle_watch_events
handle_watch_event(table, files, now, event, io_error) ==
    IF event.type = "Add"
    THEN handle_add_watch_event(table, files, now, event.name, io_error)
    ELSE IF event.type = "Modify"
    THEN handle_modify_watch_event(table, files, now, event.name, io_error)
    ELSE IF event.type = "Rename"
    THEN handle_rename_watch_event(table, files, now, event.name, event.new_name, io_error)
    ELSE handle_delete_watch_event(table, event.name)

\* -------------------------------------------------------- sync-all handler

\* gen + 1 with update_time and update_by set, as update_index does
sync_all_bump(index_file, hash_sum, block_chain, deleted, now) ==
    [watch_bump(index_file, hash_sum, block_chain, deleted) EXCEPT
        !.update_time = now, !.update_by = LocalUser]

get_new_files(files, table) ==
    {n \in DOMAIN files : files[n] # <<>>
                   /\ (table[n] = <<>> \/ get_file(table, n)[1].detail.deleted)}

get_delete_files(files, table) ==
    {n \in DOMAIN table : table[n] # <<>> /\ ~get_file(table, n)[1].detail.deleted
                   /\ files[n] = <<>>}

get_exists_files(files, table) ==
    {n \in DOMAIN files : files[n] # <<>> /\ table[n] # <<>>
                   /\ ~get_file(table, n)[1].detail.deleted}

\* update_index on one name, with no bump of a deleted entry whose file is back
update_index_of_keeps_deleted(table, files, now, n) ==
    LET local == get_file(table, n)
    IN  IF n \in get_delete_files(files, table)
        THEN update_file(table, sync_all_bump(local[1], ZeroHash, <<>>, TRUE, now))[n]
        ELSE IF n \in get_new_files(files, table)
        THEN LET hashed == hash_file(files[n][1])
             IN  IF local = <<>>
                 THEN create_file(table, new_index_file(n, hashed, now))[n]
                 ELSE table[n]
        ELSE IF n \in get_exists_files(files, table)
        THEN LET hashed == hash_file(files[n][1])
             IN  IF local[1].detail.hash_sum = hashed.hash_sum
                 THEN table[n]
                 ELSE update_file(table, sync_all_bump(local[1], hashed.hash_sum,
                                                       <<hashed.block_chain>>, FALSE, now))[n]
        ELSE table[n]

\* update_index on one name; the three lists are disjoint
update_index_of(table, files, now, n) ==
    LET local == get_file(table, n)
    IN  IF n \in get_delete_files(files, table)
        THEN update_file(table, sync_all_bump(local[1], ZeroHash, <<>>, TRUE, now))[n]
        ELSE IF n \in get_new_files(files, table)
        THEN LET hashed == hash_file(files[n][1])
             IN  IF local = <<>>
                 THEN create_file(table, new_index_file(n, hashed, now))[n]
                 ELSE update_file(table, sync_all_bump(local[1], hashed.hash_sum,
                                                       <<hashed.block_chain>>, FALSE, now))[n]
        ELSE IF n \in get_exists_files(files, table)
        THEN LET hashed == hash_file(files[n][1])
             IN  IF local[1].detail.hash_sum = hashed.hash_sum
                 THEN table[n]
                 ELSE update_file(table, sync_all_bump(local[1], hashed.hash_sum,
                                                       <<hashed.block_chain>>, FALSE, now))[n]
        ELSE table[n]

update_index(table, files, now) ==
    [n \in DOMAIN table |-> update_index_of(table, files, now, n)]

\* list_all_files without the entries that are deleted
RECURSIVE list_all_files_live(_, _)
list_all_files_live(table, names) ==
    IF names = {} THEN <<>>
    ELSE LET n == CHOOSE x \in names : TRUE
             entry == get_file(table, n)
         IN  (IF entry # <<>> /\ entry[1].detail.deleted THEN <<>> ELSE entry)
             \o list_all_files_live(table, names \ {n})

\* list_all_files, collected
RECURSIVE list_all_files(_, _)
list_all_files(table, names) ==
    IF names = {} THEN <<>>
    ELSE LET n == CHOOSE x \in names : TRUE
         IN  get_file(table, n) \o list_all_files(table, names \ {n})

\* the largest gen of a table
MaxGenOf(table) ==
    LET gens == {0} \cup {table[n][1].gen : n \in {m \in DOMAIN table : table[m] # <<>>}}
    IN  CHOOSE g \in gens : \A h \in gens : h <= g

\* ------------------------------------------------------------ remote peers

\* a version of a file: its bytes, or <<>> when deleted
Versions == {<<>>} \cup {<<c>> : c \in Contents}

VersionDetail(gen, version) ==
    IF version = <<>> THEN DeletedDetail(gen) ELSE LiveDetail(gen, version[1])

\* the histories a peer's handlers build: a file is created live, and a deleted
\* entry is never bumped to deleted again
Histories(gen) ==
    {h \in [1..gen -> Versions] :
        /\ h[1] # <<>>
        /\ \A i \in 1..(gen - 1) : h[i] # <<>> \/ h[i + 1] # <<>>}

\* the IndexFile a peer gossips for a history; previous_details in push order
\* (ascending) or as read back from the peer's store (descending)
RemoteIndexFile(name, h, time, by, descending) ==
    LET gen == Len(h)
    IN  [filename |-> name,
         kind |-> "File",
         detail |-> VersionDetail(gen, h[gen]),
         previous_details |->
            [i \in 1..(gen - 1) |->
                LET j == IF descending THEN gen - i ELSE i
                IN  StripChain(VersionDetail(j, h[j]))],
         update_time |-> time,
         update_by |-> by]

\* a rumor together with the bytes its sender serves for it
RumorInputs ==
    {[rumor |-> RemoteIndexFile(name, h, time, by, descending),
      source |-> IF h[Len(h)] = <<>> THEN <<>> ELSE h[Len(h)][1]] :
        name \in Names, h \in UNION {Histories(g) : g \in 1..MaxGen},
        time \in 0..MaxTime, by \in RemoteUsers, descending \in BOOLEAN}

\* ------------------------------------------------------------ two peers

\* the two peers of a shared directory, by their user ids
Peers == {LocalUser} \cup RemoteUsers
Other(p) == CHOOSE q \in Peers : q # p

\* both peers start with an empty directory and an empty index, nothing in flight
PairInit ==
    [index |-> [p \in Peers |-> [n \in Names |-> <<>>]],
     dir |-> [p \in Peers |-> [n \in Names |-> <<>>]],
     conflicts |-> [p \in Peers |-> {}],
     inbox |-> [p \in Peers |-> <<>>],
     running |-> [p \in Peers |-> TRUE],
     now |-> 0,
     quiet |-> FALSE]

\* update_by: self.user_id of the peer that made the entry
MadeBy(p, index_file) ==
    IF index_file.detail.gen = 1 THEN [index_file EXCEPT !.update_by = p] ELSE index_file

\* the outcome o of a watch event at the peer p: the entry the event creates
\* (gen 1) carries update_by = p in the rumor and in the store
made_by_peer(p, table, o) ==
    [table |-> [n \in DOMAIN table |->
                   IF o.table[n] # table[n] /\ o.table[n][1].gen = 1
                   THEN <<[o.table[n][1] EXCEPT !.update_by = p]>>
                   ELSE o.table[n]],
     rumors |-> [i \in 1..Len(o.rumors) |-> MadeBy(p, o.rumors[i])]]

\* a watch event handled by the peer p on its own index and directory
peer_watch_event(p, table, files, now, event) ==
    made_by_peer(p, table, handle_watch_event(table, files, now, event, FALSE))

\* ------------------------------------------------------------------- state

VARIABLES
    index,       \* the committed tables of the index store: name -> Option<rows>
    dir,         \* the sync directory: name -> Option<bytes>
    conflicts,   \* the names of the conflict files in the sync directory
    temps,       \* temp files whose spawned unlink has not run yet
    clock,       \* the wall clock, in ticks
    watcher,     \* "watching" or "paused"
    pc,          \* where SyncController::run stands
    kind,        \* the kind of the event taken from the stream
    remaining,   \* rumors or watch events of the current event still to handle
    sender_id,   \* the sender of the current Rumors event
    new_rumors,  \* the rumors the running handler has collected so far
    outbox,      \* the SendRumors sent while handling the current event
    last,        \* Option: the last handle_rumor call of the current event
    handled,     \* Option: the last watch event handled in the current event
    pair,        \* two peers that share the directory, and the rumors between them
    applied,     \* Option: the last call of hash_file or compare_blocks, with its arguments
    producer     \* the watcher's channel and the last batch the producer has sent

vars == <<index, dir, conflicts, temps, clock, watcher, pc, kind, remaining, sender_id,
          new_rumors, outbox, last, handled, pair, applied, producer>>

\* an empty sync directory and an empty index over the names given
InitOn(names) ==
    /\ index = [n \in names |-> <<>>]
    /\ dir = [n \in names |-> <<>>]
    /\ conflicts = {}
    /\ temps = 0
    /\ clock = 0
    /\ watcher = "watching"
    /\ pc = "next"
    /\ kind = "none"
    /\ remaining = 0
    /\ sender_id = "none"
    /\ new_rumors = <<>>
    /\ outbox = <<>>
    /\ last = <<>>
    /\ handled = <<>>
    /\ pair = PairInit
    /\ applied = <<>>
    /\ producer = [channel |-> <<>>, sent |-> <<>>]

Init == InitOn(Names)

\* ------------------------------------------------------------- environment

\* the user writes a file of the sync directory
UserWrite ==
    /\ pc = "next"
    /\ \E n \in DOMAIN dir, c \in Contents : dir' = [dir EXCEPT ![n] = <<c>>]
    /\ UNCHANGED <<index, conflicts, temps, clock, watcher, pc, kind, remaining, sender_id,
                   new_rumors, outbox, last,
                   handled, pair, applied, producer>>

\* the user removes a file of the sync directory
UserRemove ==
    /\ pc = "next"
    /\ \E n \in DOMAIN dir : dir[n] # <<>> /\ dir' = [dir EXCEPT ![n] = <<>>]
    /\ UNCHANGED <<index, conflicts, temps, clock, watcher, pc, kind, remaining, sender_id,
                   new_rumors, outbox, last,
                   handled, pair, applied, producer>>

\* time passes
Tick ==
    /\ pc = "next"
    /\ clock < MaxClock
    /\ clock' = clock + 1
    /\ UNCHANGED <<index, dir, conflicts, temps, watcher, pc, kind, remaining, sender_id,
                   new_rumors, outbox, last,
                   handled, pair, applied, producer>>

\* the spawned task removing every file of the sync directory with the temp file
UnlinkTemp_removes_target ==
    /\ temps > 0
    /\ temps' = temps - 1
    /\ dir' = [n \in DOMAIN dir |-> <<>>]
    /\ UNCHANGED <<index, conflicts, clock, watcher, pc, kind, remaining, sender_id,
                   new_rumors, outbox, last,
                   handled, pair, applied, producer>>

\* the task AsyncTempFile::drop spawned removes the temp file
UnlinkTemp ==
    /\ temps > 0
    /\ temps' = temps - 1
    /\ UNCHANGED <<index, dir, conflicts, clock, watcher, pc, kind, remaining, sender_id,
                   new_rumors, outbox, last,
                   handled, pair, applied, producer>>

\* -------------------------------------------------------------- controller

\* the event taken is one of the kinds given
Take(kinds) ==
    /\ pc = "next"
    /\ \E k \in kinds : kind' = k
    /\ pc' = "pause"
    /\ outbox' = <<>>
    /\ last' = <<>>
    /\ handled' = <<>>
    /\ UNCHANGED <<index, dir, conflicts, temps, clock, watcher, remaining, sender_id,
                   new_rumors, pair, applied, producer>>

\* event_stream.try_next() yields an event
TakeEvent == Take({"watch", "rumors", "sync_all"})

\* event_stream.try_next() yields a batch of rumors
TakeRumorsEvent == Take({"rumors"})

\* event_stream.try_next() yields an event of a peer that runs alone
TakeLocalEvent == Take({"watch", "sync_all"})

\* event_stream.try_next() yields an error: run returns it
StreamError ==
    /\ pc = "next"
    /\ pc' = "failed"
    /\ UNCHANGED <<index, dir, conflicts, temps, clock, watcher, kind, remaining, sender_id,
                   new_rumors, outbox, last,
                   handled, pair, applied, producer>>

\* the stream has ended: the loop is left and run reaches todo!()
StreamEnd ==
    /\ pc = "next"
    /\ pc' = "panicked"
    /\ UNCHANGED <<index, dir, conflicts, temps, clock, watcher, kind, remaining, sender_id,
                   new_rumors, outbox, last,
                   handled, pair, applied, producer>>

\* run without its pause: the event is dispatched with the watcher as it is
PauseWatch_skipped ==
    /\ pc = "pause"
    /\ pc' = "dispatch"
    /\ UNCHANGED <<index, dir, conflicts, temps, clock, watcher, kind, remaining, sender_id,
                   new_rumors, outbox, last,
                   handled, pair, applied, producer>>

\* run going on to the handler when pause_watch has failed
PauseWatch_ignores_error ==
    /\ pc = "pause"
    /\ \E ok \in BOOLEAN :
          IF ok /\ watcher = "watching"
          THEN watcher' = "paused" /\ pc' = "dispatch"
          ELSE watcher' = watcher /\ pc' = "dispatch"
    /\ UNCHANGED <<index, dir, conflicts, temps, clock, kind, remaining, sender_id,
                   new_rumors, outbox, last,
                   handled, pair, applied, producer>>

\* self.pause_watch().await?
PauseWatch ==
    /\ pc = "pause"
    /\ \E ok \in BOOLEAN :
          IF ok /\ watcher = "watching"
          THEN watcher' = "paused" /\ pc' = "dispatch"
          ELSE watcher' = watcher /\ pc' = "failed"
    /\ UNCHANGED <<index, dir, conflicts, temps, clock, kind, remaining, sender_id,
                   new_rumors, outbox, last,
                   handled, pair, applied, producer>>

\* self.resume_watch().await?
ResumeWatch ==
    /\ pc = "resume"
    /\ \E ok \in BOOLEAN :
          IF ok
          THEN watcher' = "watching" /\ pc' = "next"
          ELSE watcher' = watcher /\ pc' = "failed"
    /\ UNCHANGED <<index, dir, conflicts, temps, clock, kind, remaining, sender_id,
                   new_rumors, outbox, last,
                   handled, pair, applied, producer>>

\* Event::Rumors is matched: handle_rumors_event starts on a batch
RumorsBatch(cap) ==
    /\ pc = "dispatch" /\ kind = "rumors"
    /\ \E n \in 0..cap, s \in RemoteUsers : remaining' = n /\ sender_id' = s
    /\ new_rumors' = <<>>
    /\ pc' = "rumors"
    /\ UNCHANGED <<index, dir, conflicts, temps, clock, watcher, kind, outbox, last,
                   handled, pair, applied, producer>>

BeginRumors == RumorsBatch(MaxBatch)

\* the same on a batch of up to MaxRumors rumors
BeginRumorsGossip == RumorsBatch(MaxRumors)

\* the call did the operation named
Did(log, op) == \E i \in 1..Len(log) : log[i] = op

\* one turn of the loop of handle_rumors_event: handle_rumor on the next rumor
HandleRumor ==
    /\ pc = "rumors" /\ remaining > 0
    /\ \E in \in RumorInputs, dl \in DownloadOutcomes :
          LET name == in.rumor.filename
              o == handle_rumor(index, dir[name], conflicts, clock, in.rumor, in.source, dl)
          IN  /\ temps + o.temps <= MaxTemps
              /\ index' = o.table
              /\ dir' = [dir EXCEPT ![name] = o.file]
              /\ conflicts' = conflicts \cup {c.name : c \in Range(o.conflict)}
              /\ temps' = temps + o.temps
              /\ new_rumors' = IF o.result = "new" THEN Append(new_rumors, in.rumor)
                               ELSE new_rumors
              /\ pc' = IF o.result = "err" THEN "failed" ELSE "rumors"
              /\ last' = <<[rumor |-> in.rumor, source |-> in.source,
                            dl |-> IF ~Did(o.log, "download") THEN "unused"
                                  ELSE IF dl = "none" /\ ~Did(o.log, "none") THEN "all"
                                  ELSE dl,
                            path |-> o.path, result |-> o.result, log |-> o.log,
                            conflict |-> o.conflict]>>
    /\ remaining' = remaining - 1
    /\ UNCHANGED <<clock, watcher, kind, sender_id, outbox,
                   handled, pair, applied, producer>>

\* send_rumors_to_others
SendRumors(rumors, except) == [rumors |-> rumors, except |-> except]

\* the end of handle_rumors_event with the sender left among the receivers
FinishRumors_to_all ==
    /\ pc = "rumors" /\ remaining = 0
    /\ IF new_rumors = <<>>
       THEN outbox' = outbox /\ pc' = "resume"
       ELSE \E ok \in BOOLEAN :
               IF ok
               THEN /\ outbox' = Append(outbox, SendRumors(new_rumors, <<>>))
                    /\ pc' = "resume"
               ELSE outbox' = outbox /\ pc' = "failed"
    /\ UNCHANGED <<index, dir, conflicts, temps, clock, watcher, kind, remaining, sender_id,
                   new_rumors, last,
                   handled, pair, applied, producer>>

\* the end of handle_rumors_event: the new rumors go to the others
FinishRumors ==
    /\ pc = "rumors" /\ remaining = 0
    /\ IF new_rumors = <<>>
       THEN outbox' = outbox /\ pc' = "resume"
       ELSE \E ok \in BOOLEAN :
               IF ok
               THEN /\ outbox' = Append(outbox, SendRumors(new_rumors, <<sender_id>>))
                    /\ pc' = "resume"
               ELSE outbox' = outbox /\ pc' = "failed"
    /\ UNCHANGED <<index, dir, conflicts, temps, clock, watcher, kind, remaining, sender_id,
                   new_rumors, last,
                   handled, pair, applied, producer>>

\* Event::Watch is matched: handle_watch_events starts on a batch
WatchBatch(cap) ==
    /\ pc = "dispatch" /\ kind = "watch"
    /\ \E n \in 0..cap : remaining' = n
    /\ new_rumors' = <<>>
    /\ pc' = "watch"
    /\ UNCHANGED <<index, dir, conflicts, temps, clock, watcher, kind, sender_id, outbox, last,
                   handled, pair, applied, producer>>

BeginWatch == WatchBatch(MaxBatch)

\* the same on a batch of up to MaxEvents events
BeginWatchDeep == WatchBatch(MaxEvents)

\* the turn of the loop with continue in the place of break
WatchEventStep_continues(cap) ==
    /\ pc = "watch" /\ remaining > 0
    /\ \E event \in WatchEvents(DOMAIN dir), io_error \in BOOLEAN, index_error \in BOOLEAN, commit_ok \in BOOLEAN :
          LET o == handle_watch_event(index, dir, clock, event, io_error)
              ok == o.ok /\ ~(index_error /\ reads_index(dir, event))
          IN  /\ MaxGenOf(o.table) <= cap
              /\ handled' = <<[event |-> event, ok |-> ok, committed |-> ok /\ commit_ok,
                               rumors |-> IF ok THEN o.rumors ELSE <<>>]>>
              /\ IF ~ok
                 THEN /\ index' = index
                      /\ new_rumors' = new_rumors
                      /\ remaining' = remaining - 1
                      /\ pc' = "watch"
                 ELSE IF commit_ok
                 THEN /\ index' = o.table
                      /\ new_rumors' = new_rumors \o o.rumors
                      /\ remaining' = remaining - 1
                      /\ pc' = "watch"
                 ELSE /\ index' = index
                      /\ new_rumors' = new_rumors
                      /\ remaining' = remaining - 1
                      /\ pc' = "failed"
    /\ UNCHANGED <<dir, conflicts, temps, clock, watcher, kind, sender_id, outbox, last, pair, applied, producer>>

\* one turn of the loop of handle_watch_events: a guard, the handler of the event,
\* break on its error, else commit (which may fail)
WatchEventStep(cap) ==
    /\ pc = "watch" /\ remaining > 0
    /\ \E event \in WatchEvents(DOMAIN dir), io_error \in BOOLEAN, index_error \in BOOLEAN, commit_ok \in BOOLEAN :
          LET o == handle_watch_event(index, dir, clock, event, io_error)
              ok == o.ok /\ ~(index_error /\ reads_index(dir, event))
          IN  /\ MaxGenOf(o.table) <= cap
              /\ handled' = <<[event |-> event, ok |-> ok, committed |-> ok /\ commit_ok,
                               rumors |-> IF ok THEN o.rumors ELSE <<>>]>>
              /\ IF ~ok
                 THEN \* break: the guard is dropped, the rumors so far are sent
                      /\ index' = index
                      /\ new_rumors' = new_rumors
                      /\ remaining' = 0
                      /\ pc' = "watch"
                 ELSE IF commit_ok
                 THEN /\ index' = o.table
                      /\ new_rumors' = new_rumors \o o.rumors
                      /\ remaining' = remaining - 1
                      /\ pc' = "watch"
                 ELSE /\ index' = index
                      /\ new_rumors' = new_rumors
                      /\ remaining' = remaining - 1
                      /\ pc' = "failed"
    /\ UNCHANGED <<dir, conflicts, temps, clock, watcher, kind, sender_id, outbox, last, pair, applied, producer>>

HandleWatchEvent == WatchEventStep(MaxGen)

\* the same turn, with local bumps up to MaxBump
HandleWatchEventDeep == WatchEventStep(MaxBump)

\* send_rumors_to_all without its test for no rumors
FinishWatch_sends_empty ==
    /\ pc = "watch" /\ remaining = 0
    /\ \E ok \in BOOLEAN :
          IF ok
          THEN /\ outbox' = Append(outbox, SendRumors(new_rumors, <<>>))
               /\ pc' = "resume"
          ELSE outbox' = outbox /\ pc' = "failed"
    /\ UNCHANGED <<index, dir, conflicts, temps, clock, watcher, kind, remaining, sender_id,
                   new_rumors, last,
                   handled, pair, applied, producer>>

\* send_rumors_to_all of the watch handler: nothing is sent for no rumors
FinishWatch ==
    /\ pc = "watch" /\ remaining = 0
    /\ IF new_rumors = <<>>
       THEN outbox' = outbox /\ pc' = "resume"
       ELSE \E ok \in BOOLEAN :
               IF ok
               THEN /\ outbox' = Append(outbox, SendRumors(new_rumors, <<>>))
                    /\ pc' = "resume"
               ELSE outbox' = outbox /\ pc' = "failed"
    /\ UNCHANGED <<index, dir, conflicts, temps, clock, watcher, kind, remaining, sender_id,
                   new_rumors, last,
                   handled, pair, applied, producer>>

\* Event::SyncAll is matched: handle_sync_all_event
SyncAllStep(cap) ==
    /\ pc = "dispatch" /\ kind = "sync_all"
    /\ \E io_error \in BOOLEAN, send_ok \in BOOLEAN :
          LET table == update_index(index, dir, clock)
          IN  /\ MaxGenOf(table) <= cap
              /\ IF io_error
                 THEN index' = index /\ outbox' = outbox /\ pc' = "failed"
                 ELSE /\ index' = table
                      /\ IF send_ok
                         THEN /\ outbox' = Append(outbox,
                                      SendRumors(list_all_files(table, DOMAIN table), <<>>))
                              /\ pc' = "resume"
                         ELSE outbox' = outbox /\ pc' = "failed"
    /\ UNCHANGED <<dir, conflicts, temps, clock, watcher, kind, remaining, sender_id,
                   new_rumors, last,
                   handled, pair, applied, producer>>

HandleSyncAll == SyncAllStep(MaxGen)

\* the same handler, with local bumps up to MaxBump
HandleSyncAllDeep == SyncAllStep(MaxBump)

Next ==
    \/ UserWrite
    \/ UserRemove
    \/ Tick
    \/ UnlinkTemp
    \/ TakeEvent
    \/ StreamError
    \/ StreamEnd
    \/ PauseWatch
    \/ ResumeWatch
    \/ BeginRumors
    \/ HandleRumor
    \/ FinishRumors
    \/ BeginWatch
    \/ HandleWatchEvent
    \/ FinishWatch
    \/ HandleSyncAll

Spec == Init /\ [][Next]_vars

\* a peer that runs alone: two names, no Rumors events
InitLocal == InitOn(LocalNames)

NextLocal ==
    \/ UserWrite
    \/ UserRemove
    \/ Tick
    \/ TakeLocalEvent
    \/ StreamError
    \/ StreamEnd
    \/ PauseWatch
    \/ ResumeWatch
    \/ BeginWatch
    \/ HandleWatchEvent
    \/ FinishWatch
    \/ HandleSyncAll

SpecLocal == InitLocal /\ [][NextLocal]_vars

\* a peer that runs alone on one name, followed through MaxBump generations
NextDeep ==
    \/ UserWrite
    \/ UserRemove
    \/ Tick
    \/ TakeLocalEvent
    \/ StreamError
    \/ StreamEnd
    \/ PauseWatch
    \/ ResumeWatch
    \/ BeginWatchDeep
    \/ HandleWatchEventDeep
    \/ FinishWatch
    \/ HandleSyncAllDeep

SpecDeep == Init /\ [][NextDeep]_vars

\* a peer that only hears rumors, in batches of up to MaxRumors
NextGossip ==
    \/ UnlinkTemp
    \/ TakeRumorsEvent
    \/ StreamError
    \/ StreamEnd
    \/ PauseWatch
    \/ ResumeWatch
    \/ BeginRumorsGossip
    \/ HandleRumor
    \/ FinishRumors

SpecGossip == Init /\ [][NextGossip]_vars

\* the task a dropped temp file has spawned is run in the end
SpecGossipFair == SpecGossip /\ WF_vars(UnlinkTemp)

\* ---------------------------------------------------------------- two peers

\* the peer p has handled the watch event of a change that left it the
\* directory files, with the outcome o: its rumors go to the other peer
send_to_other(p, files, source, o) ==
    /\ MaxGenOf(o.table) <= MaxGen
    /\ Len(pair.inbox[Other(p)]) < MaxInbox
    /\ pair' = [pair EXCEPT
                  !.dir[p] = files,
                  !.index[p] = o.table,
                  !.inbox[Other(p)] =
                      IF o.rumors = <<>> THEN @
                      ELSE Append(@, [from |-> p, rumors |-> o.rumors, source |-> source])]

\* the user of peer p changes a file and the watcher's event for it is handled:
\* the rumors go to the other peer
PairChange ==
    /\ ~pair.quiet
    /\ \E p \in Peers, name \in Names, version \in Versions, type \in {"Add", "Modify", "Delete"} :
          /\ pair.running[p]
          /\ version # pair.dir[p][name]
          /\ (type = "Delete") <=> (version = <<>>)
          /\ send_to_other(p, [pair.dir[p] EXCEPT ![name] = version],
                           IF version = <<>> THEN <<>> ELSE version[1],
                           peer_watch_event(p, pair.index[p],
                                            [pair.dir[p] EXCEPT ![name] = version], pair.now,
                                            [type |-> type, name |-> name, new_name |-> name]))
    /\ UNCHANGED <<index, dir, conflicts, temps, clock, watcher, pc, kind, remaining, sender_id,
                   new_rumors, outbox, last, handled, applied, producer>>

\* time passes for both peers
PairTick ==
    /\ ~pair.quiet /\ pair.now < MaxTime
    /\ pair' = [pair EXCEPT !.now = @ + 1]
    /\ UNCHANGED <<index, dir, conflicts, temps, clock, watcher, pc, kind, remaining, sender_id,
                   new_rumors, outbox, last, handled, applied, producer>>

\* from now on no user changes a file
PairQuiesce ==
    /\ ~pair.quiet
    /\ pair' = [pair EXCEPT !.quiet = TRUE]
    /\ UNCHANGED <<index, dir, conflicts, temps, clock, watcher, pc, kind, remaining, sender_id,
                   new_rumors, outbox, last, handled, applied, producer>>

\* a SendRumors reaches the peer p: handle_rumors_event on its rumor, every block
\* asked for is delivered; an Err ends run of p; with two peers nobody is left to
\* send the new rumors to (except = the sender)
PairDeliver ==
    /\ \E p \in Peers :
          /\ pair.running[p] /\ pair.inbox[p] # <<>>
          /\ LET message == Head(pair.inbox[p])
                 rumor == message.rumors[1]
                 name == rumor.filename
                 o == handle_rumor(pair.index[p], pair.dir[p][name], pair.conflicts[p],
                                   pair.now, rumor, message.source, "all")
             IN  pair' = [pair EXCEPT
                            !.inbox[p] = Tail(@),
                            !.index[p] = o.table,
                            !.dir[p][name] = o.file,
                            !.conflicts[p] = @ \cup {c.name : c \in Range(o.conflict)},
                            !.running[p] = (o.result # "err")]
    /\ UNCHANGED <<index, dir, conflicts, temps, clock, watcher, pc, kind, remaining, sender_id,
                   new_rumors, outbox, last, handled, applied, producer>>

NextPair ==
    \/ PairChange
    \/ PairTick
    \/ PairQuiesce
    \/ PairDeliver

SpecPair == Init /\ [][NextPair]_vars

\* reliable delivery: every SendRumors in flight is handled in the end
SpecPairFair == SpecPair /\ WF_vars(PairDeliver)

\* ------------------------------------------------- hashing and block lists

\* the bytes a file is made of
Bytes == {1, 2}

\* every file of at most MaxLen bytes
Files == UNION {[1..n -> Bytes] : n \in 0..MaxLen}

\* hash_file on two files, one after the other
HashFile ==
    /\ \E left \in Files, right \in Files :
          applied' = <<[op |-> "hash_file", left |-> left, right |-> right,
                        hashed_left |-> hash_file(left), hashed_right |-> hash_file(right)]>>
    /\ UNCHANGED <<index, dir, conflicts, temps, clock, watcher, pc, kind, remaining, sender_id,
                   new_rumors, outbox, last, handled, pair, producer>>

\* the download requests of handle_remote_is_latest for a remote and a local
\* version of one file: the local detail holds a block chain or none
CompareBlocks ==
    /\ \E left \in Files, right \in Files, chain \in BOOLEAN :
          LET remote == hash_file(left).block_chain.blocks
              local == IF chain THEN <<hash_file(right).block_chain>> ELSE <<>>
          IN  applied' = <<[op |-> "compare_blocks", remote |-> remote, local |-> local,
                            requests |-> IF local = <<>>
                                         THEN blocks_to_download_block_requests("a", remote)
                                         ELSE compare_blocks("a", remote, local[1].blocks)]>>
    /\ UNCHANGED <<index, dir, conflicts, temps, clock, watcher, pc, kind, remaining, sender_id,
                   new_rumors, outbox, last, handled, pair, producer>>

NextBlocks ==
    \/ HashFile
    \/ CompareBlocks

SpecBlocks == Init /\ [][NextBlocks]_vars

\* --------------------------------------------------------------- producer

\* the notify events the producer tells apart: EventKind::Access, Create, Modify
\* (data), Remove, and Modify(Name) with RenameMode::From, To and Both
RawEvents ==
    {[kind |-> k, paths |-> <<n>>] :
        k \in {"Access", "Create", "Modify", "Remove", "From", "To"}, n \in LocalNames}
    \cup {[kind |-> "Both", paths |-> <<p[1], p[2]>>] :
              p \in {q \in LocalNames \X LocalNames : q[1] # q[2]}}

\* a WatchEvent; raw is the place in the channel of the event it derives from
WatchEventOf(type, name, new_name, raw) ==
    [type |-> type, name |-> name, new_name |-> new_name, raw |-> raw]

\* create_watch_events on the i-th raw event: the rename notifications are kept
\* in the map by their first path, the other events become watch events
create_watch_events(rename_events, event, i) ==
    CASE event.kind = "Access" -> [rename_events |-> rename_events, watch_events |-> <<>>]
      [] event.kind = "Create" ->
            [rename_events |-> rename_events,
             watch_events |-> <<WatchEventOf("Add", event.paths[1], event.paths[1], i)>>]
      [] event.kind = "Modify" ->
            [rename_events |-> rename_events,
             watch_events |-> <<WatchEventOf("Modify", event.paths[1], event.paths[1], i)>>]
      [] event.kind = "Remove" ->
            [rename_events |-> rename_events,
             watch_events |-> <<WatchEventOf("Delete", event.paths[1], event.paths[1], i)>>]
      [] event.kind \in {"From", "To"} ->
            [rename_events |-> [rename_events EXCEPT ![event.paths[1]] = <<[event |-> event, raw |-> i]>>],
             watch_events |-> <<>>]
      [] event.kind = "Both" ->
            [rename_events |-> [rename_events EXCEPT ![event.paths[2]] = <<>>,
                                                     ![event.paths[1]] = <<[event |-> event, raw |-> i]>>],
             watch_events |-> <<>>]

\* the loop of handle_events over the raw events, from the i-th on
RECURSIVE collect_watch_events(_, _, _, _)
collect_watch_events(events, i, rename_events, all_watch_events) ==
    IF i > Len(events)
    THEN [rename_events |-> rename_events, all_watch_events |-> all_watch_events]
    ELSE LET o == create_watch_events(rename_events, events[i], i)
         IN  collect_watch_events(events, i + 1, o.rename_events,
                                  all_watch_events \o o.watch_events)

\* the orders in which HashMap::into_values may yield the values of the keys
Orders(keys) ==
    {order \in [1..Cardinality(keys) -> keys] :
        \A i, j \in 1..Cardinality(keys) : i # j => order[i] # order[j]}

\* compose_rename_events: the kept rename notifications, in the order the map
\* yields them, pushed after the watch events
compose_rename_events(rename_events, order, all_watch_events) ==
    all_watch_events \o
    [k \in 1..Len(order) |->
        LET kept == rename_events[order[k]][1]
        IN  CASE kept.event.kind = "To" ->
                    WatchEventOf("Add", kept.event.paths[1], kept.event.paths[1], kept.raw)
              [] kept.event.kind = "From" ->
                    WatchEventOf("Delete", kept.event.paths[1], kept.event.paths[1], kept.raw)
              [] kept.event.kind = "Both" ->
                    WatchEventOf("Rename", kept.event.paths[1], kept.event.paths[2], kept.raw)]

\* the keys the rename map holds after the loop
RenameKeys(rename_events) == {n \in DOMAIN rename_events : rename_events[n] # <<>>}

\* the notify callback sends a raw event into the channel
WatcherSend ==
    /\ Len(producer.channel) < MaxRaw
    /\ \E event \in RawEvents :
          producer' = [producer EXCEPT !.channel = Append(@, event)]
    /\ UNCHANGED <<index, dir, conflicts, temps, clock, watcher, pc, kind, remaining, sender_id,
                   new_rumors, outbox, last, handled, pair, applied>>

\* one turn of Producer::run: every event that waits in the channel is taken
\* and handle_events sends them as one Event::Watch
ProducerRun ==
    /\ producer.channel # <<>>
    /\ LET o == collect_watch_events(producer.channel, 1, [n \in LocalNames |-> <<>>], <<>>)
       IN  \E order \in Orders(RenameKeys(o.rename_events)) :
              producer' = [channel |-> <<>>,
                           sent |-> <<[events |-> producer.channel,
                                       watch_events |-> compose_rename_events(
                                           o.rename_events, order, o.all_watch_events)]>>]
    /\ UNCHANGED <<index, dir, conflicts, temps, clock, watcher, pc, kind, remaining, sender_id,
                   new_rumors, outbox, last, handled, pair, applied>>

NextProducer ==
    \/ WatcherSend
    \/ ProducerRun

SpecProducer == Init /\ [][NextProducer]_vars

\* ------------------------------------------------------------------ claims

\* the step of handle_rumors_event that handles one rumor: in its post-state
\* last holds the call, in its pre-state index and dir are what the call met
RumorHandled == pc = "rumors" /\ remaining' = remaining - 1

\* the rumor of the step, the local entry it met and the entry it left
R == last'[1].rumor
L == get_file(index, R.filename)
Committed == index'[R.filename]

\* every block asked for was delivered: the stream neither failed nor yielded None
Delivered(call) == call.dl # "error" /\ ~Did(call.log, "none")

\* every step of the call that left the file system and the index alone
NothingDone == /\ index' = index /\ dir' = dir /\ conflicts' = conflicts /\ temps' = temps
               /\ last'[1].log = <<>>

\* C1: between the pause and the end of the handler (dispatch, the rumors loop,
\* the watch loop, the sync-all handler) every step is taken with the watcher
\* paused and leaves it paused; no handler step runs while it is watching.
C1_HandlersRunPaused ==
    [][(pc \in {"dispatch", "rumors", "watch"})
       => (watcher = "paused" /\ watcher' = "paused")]_vars

\* C1 witness: the watch handler has committed a bump and the watcher is paused
C1_Witness == pc = "watch" /\ new_rumors # <<>> /\ watcher = "paused"

\* C2: a rumor whose block stream yields None is canceled: the target file and
\* the index are left as they were, the rumor is reported non-new and is not kept
\* for the rebroadcast.
C2_NoneCancels ==
    [][RumorHandled /\ Did(last'[1].log, "none")
       => /\ dir' = dir
          /\ index' = index
          /\ last'[1].result = "old"
          /\ new_rumors' = new_rumors]_vars

\* C3: handling a rumor R against a local entry L never lowers the committed gen,
\* and a rumor reported new leaves a committed gen of at least R.gen.
C3_GenMonotone ==
    [][RumorHandled /\ L # <<>>
       => /\ Committed # <<>>
          /\ Committed[1].gen >= L[1].detail.gen
          /\ (last'[1].result = "new" => Committed[1].gen >= R.detail.gen)]_vars

\* C4: after a rumor was reported new, handling the same rumor again changes
\* neither the index nor the sync directory, creates no conflict file, downloads
\* nothing and reports non-new (so nothing is sent).
C4_Idempotent ==
    pc = "rumors" /\ last # <<>> /\ last[1].result = "new"
    => \A dl \in DownloadOutcomes :
          LET rumor == last[1].rumor
              again == handle_rumor(index, dir[rumor.filename], conflicts, clock, rumor,
                                    last[1].source, dl)
          IN  /\ again.table = index
              /\ again.file = dir[rumor.filename]
              /\ again.conflict = <<>>
              /\ ~Did(again.log, "download")
              /\ again.result = "old"

\* C5: on the conflict path (L.gen < R.gen, L's detail not in R's history) with a
\* rumor that was handled to the end, the local bytes are kept in a conflict file,
\* the index entry is R and the target holds R's content or is absent when R is
\* deleted.
C5_ConflictAppliesRemote ==
    [][/\ RumorHandled /\ L # <<>>
       /\ L[1].detail.gen < R.detail.gen /\ ~InHistory(R, L[1])
       /\ dir[R.filename] # <<>> /\ Delivered(last'[1])
       => /\ last'[1].conflict # <<>>
          /\ last'[1].conflict[1].bytes = dir[R.filename][1]
          /\ last'[1].conflict[1].name \in conflicts'
          /\ Committed = <<DbCreate(R)>>
          /\ dir'[R.filename] = IF R.detail.deleted THEN <<>> ELSE <<last'[1].source>>]_vars

\* C6: on the fast-forward path (L.gen < R.gen, L's detail in R's history) with
\* a target that is absent or hashes to L's hash and every block delivered, the index entry becomes R, no conflict file is made, the
\* file is removed when R is deleted and holds R's content otherwise, and the
\* rumor is reported new.
C6_FastForwardApplies ==
    [][/\ RumorHandled /\ L # <<>>
       /\ L[1].detail.gen < R.detail.gen /\ InHistory(R, L[1])
       /\ (dir[R.filename] # <<>>
              => hash_file(dir[R.filename][1]).hash_sum = L[1].detail.hash_sum)
       /\ Delivered(last'[1])
       => /\ Committed = <<DbCreate(R)>>
          /\ last'[1].conflict = <<>> /\ conflicts' = conflicts
          /\ dir'[R.filename] = IF R.detail.deleted THEN <<>> ELSE <<last'[1].source>>
          /\ last'[1].result = "new"]_vars

\* C7: with L.gen = R.gen the rumor is ignored (no index or file change, non-new,
\* not kept for the rebroadcast) when L = R, when R.update_time < L.update_time
\* and when the times are equal and the entries differ; a rumor of equal gen is
\* reported new only when R.update_time > L.update_time.
C7_EqualGenDecision ==
    [][RumorHandled /\ L # <<>> /\ L[1].detail.gen = R.detail.gen
       => /\ (R = L[1] \/ R.update_time <= L[1].update_time
              => NothingDone /\ last'[1].result = "old" /\ new_rumors' = new_rumors)
          /\ (last'[1].result = "new" => R.update_time > L[1].update_time)]_vars

\* C7 witness: a rumor of equal gen and an older update_time was ignored
C7_Witness ==
    /\ last # <<>> /\ last[1].path = "eq_local" /\ last[1].result = "old"
    /\ last[1].rumor.update_time
          < get_file(index, last[1].rumor.filename)[1].update_time

\* C8: with L.gen = R.gen, L # R and R.update_time > L.update_time, for R deleted
\* or not: a conflict file holds the local bytes when L is not deleted, the index
\* entry is R, the target holds R's content or is absent, and the rumor is kept
\* for the rebroadcast.
C8_EqualGenRemoteWins ==
    [][/\ RumorHandled /\ L # <<>>
       /\ L[1].detail.gen = R.detail.gen /\ R # L[1]
       /\ R.update_time > L[1].update_time
       /\ (L[1].detail.deleted \/ dir[R.filename] # <<>>)
       /\ Delivered(last'[1])
       => /\ (~L[1].detail.deleted
               => /\ last'[1].conflict # <<>>
                  /\ last'[1].conflict[1].bytes = dir[R.filename][1])
          /\ Committed = <<DbCreate(R)>>
          /\ dir'[R.filename] = IF R.detail.deleted THEN <<>> ELSE <<last'[1].source>>
          /\ last'[1].result = "new"
          /\ new_rumors' = Append(new_rumors, R)]_vars

\* C9: a rumor with L.gen > R.gen is ignored: no index write, no file operation,
\* no download, non-new and not kept for the rebroadcast, whether or not L's
\* history holds R's detail.
C9_LocalNewerIgnored ==
    [][RumorHandled /\ L # <<>> /\ L[1].detail.gen > R.detail.gen
       => /\ NothingDone
          /\ last'[1].result = "old"
          /\ new_rumors' = new_rumors /\ outbox' = outbox]_vars

\* C9 witness: an older rumor whose detail is in the local history was ignored
C9_Witness ==
    /\ last # <<>> /\ last[1].path = "local_latest" /\ last[1].result = "old"
    /\ \E d \in Range(get_file(index, last[1].rumor.filename)[1].previous_details) :
          d.gen = last[1].rumor.detail.gen /\ d.hash_sum = last[1].rumor.detail.hash_sum

\* the log has no write_at after its rename
RenameAfterWrites(log) ==
    \A i, j \in 1..Len(log) : log[i] = "write_at" /\ log[j] = "rename" => i < j

BatchDone == pc = "rumors" /\ remaining = 0 /\ pc' # "rumors"

\* C12: a batch of rumors from sender S yields at most one SendRumors, emitted
\* when the batch is done; its except is S and its rumors are the rumors whose
\* handling reported new, in the order of the batch; none is emitted when no
\* rumor was new.
C12_Rebroadcast ==
    [][/\ RumorHandled
          => /\ new_rumors' = IF last'[1].result = "new" THEN Append(new_rumors, R)
                              ELSE new_rumors
             /\ outbox' = <<>>
       /\ BatchDone
          => /\ outbox = <<>>
             /\ new_rumors = <<>> => outbox' = <<>>
             /\ outbox' # <<>> => outbox' = <<SendRumors(new_rumors, <<sender_id>>)>>
       /\ (kind = "rumors" /\ outbox' # outbox /\ outbox' # <<>>) => BatchDone]_vars

\* C12 witness: a batch of two rumors, both new, went out in one SendRumors
C12_Witness ==
    /\ kind = "rumors" /\ pc = "resume" /\ Len(outbox) = 1
    /\ outbox[1].except = <<sender_id>>
    /\ Len(outbox[1].rumors) = 2
    /\ outbox[1].rumors[1] # outbox[1].rumors[2]

\* C13: handle_rumor reports new exactly when the committed local state changed:
\* when it reports new the index entry of the name differs from the one it met,
\* and when it reports not new the index entry and the target file are the ones
\* it met.
C13_NewIffChanged ==
    [][RumorHandled
       => /\ last'[1].result = "new" => Committed # index[R.filename]
          /\ last'[1].result = "old"
             => Committed = index[R.filename] /\ dir'[R.filename] = dir[R.filename]]_vars

\* the well-formedness of an IndexFile
WellFormed(index_file) ==
    LET previous == index_file.previous_details
    IN  /\ \A i \in 1..Len(previous) : previous[i].gen < index_file.detail.gen
        /\ \A i, j \in 1..Len(previous) : i < j => previous[i].gen < previous[j].gen
        /\ \A i \in 1..Len(previous) : previous[i].block_chain = <<>>

\* C14: every IndexFile read back from a committed index is well-formed: its
\* detail.gen is greater than every gen of previous_details, previous_details is
\* sorted by ascending gen, and no previous detail carries a block_chain.
C14_WellFormedIndex ==
    \A name \in DOMAIN index :
        get_file(index, name) # <<>> => WellFormed(get_file(index, name)[1])

\* the step of handle_watch_events that handles one event: in its post-state
\* handled holds the event and what its handler returned
WatchHandled == pc = "watch" /\ remaining' # remaining

\* the step that is a whole handle_sync_all_event
SyncAllHandled == pc = "dispatch" /\ kind = "sync_all" /\ pc' # pc

\* "bump gen" of the entry old with the detail given, at the time of the step
Bumped(old, detail) ==
    [old EXCEPT !.detail = detail,
                !.previous_details = Append(@, StripChain(old.detail)),
                !.update_time = clock,
                !.update_by = LocalUser]

\* C15: every gen bump of the watch handler and of the sync-all handler makes an
\* entry with gen = old gen + 1, previous_details = the old list with the old
\* detail (chain cleared) appended, update_time = now and update_by = the local
\* peer id.
C15_BumpGen ==
    [][/\ WatchHandled /\ handled'[1].committed
          => \A i \in 1..Len(handled'[1].rumors) :
                LET new == handled'[1].rumors[i]
                    old == get_file(index, new.filename)
                IN  old # <<>> => /\ new.detail.gen = old[1].detail.gen + 1
                                  /\ new = Bumped(old[1], new.detail)
       /\ SyncAllHandled
          => \A name \in DOMAIN index :
                LET old == get_file(index, name)
                    new == get_file(index', name)
                IN  old # <<>> /\ index'[name] # index[name]
                    => /\ new[1].detail.gen = old[1].detail.gen + 1
                       /\ index'[name]
                            = update_file(index, Bumped(old[1], new[1].detail))[name]]_vars

\* the event of the step and the entry its name had when the step began
E == handled'[1].event
Held(name) == get_file(index, name)
Live(entry) == entry # <<>> /\ ~entry[1].detail.deleted

\* the handler of the step bumped the live entry of the name to a deleted detail:
\* the rumor it returned is the entry the index now holds
BumpedToDeleted(name, rumor) ==
    /\ rumor.filename = name
    /\ rumor.detail = DeletedDetail(Held(name)[1].detail.gen + 1)
    /\ rumor.previous_details
         = Append(Held(name)[1].previous_details, StripChain(Held(name)[1].detail))
    /\ index'[name] = update_file(index, rumor)[name]

\* C16: an Add or a Modify event whose file is not on disk: a non-deleted entry
\* of the name is bumped to a deleted detail and a rumor is produced; with no
\* entry or a deleted entry the event is ignored, with no index write and no
\* rumor.
C16_MissingFile ==
    [][WatchHandled /\ E.type \in {"Add", "Modify"} /\ dir[E.name] = <<>>
          /\ handled'[1].committed
       => IF Live(Held(E.name))
          THEN /\ Len(handled'[1].rumors) = 1
               /\ BumpedToDeleted(E.name, handled'[1].rumors[1])
               /\ new_rumors' = new_rumors \o handled'[1].rumors
          ELSE /\ handled'[1].rumors = <<>>
               /\ index' = index
               /\ new_rumors' = new_rumors]_vars

\* the detail of the file the name has on disk when the step begins
FreshDetail(name, gen) ==
    [gen |-> gen, hash_sum |-> hash_file(dir[name][1]).hash_sum,
     block_chain |-> <<hash_file(dir[name][1]).block_chain>>, deleted |-> FALSE]

\* the rumor is a first entry of the name for the file on disk, and the index
\* holds it
CreatedFresh(name, rumor) ==
    /\ rumor.filename = name
    /\ rumor.detail = FreshDetail(name, 1)
    /\ rumor.previous_details = <<>>
    /\ index'[name] = create_file(index, rumor)[name]

\* the rumor is the entry of the name bumped to the file on disk, and the index
\* holds it
BumpedFresh(name, rumor) ==
    /\ rumor.filename = name
    /\ rumor.detail = FreshDetail(name, Held(name)[1].detail.gen + 1)
    /\ rumor.previous_details
         = Append(Held(name)[1].previous_details, StripChain(Held(name)[1].detail))
    /\ index'[name] = update_file(index, rumor)[name]

WatchDone == pc = "watch" /\ remaining = 0 /\ pc' # "watch"

\* C18: a Delete event with no entry or an entry already deleted writes nothing
\* and emits no rumor; with a non-deleted entry the entry is bumped to gen + 1,
\* deleted, with the all-zero hash and no block chain, and that entry is emitted
\* as a rumor with except = None.
C18_DeleteEvent ==
    [][/\ WatchHandled /\ E.type = "Delete" /\ handled'[1].committed
          => IF Live(Held(E.name))
             THEN /\ Len(handled'[1].rumors) = 1
                  /\ BumpedToDeleted(E.name, handled'[1].rumors[1])
                  /\ handled'[1].rumors[1].detail.hash_sum = ZeroHash
                  /\ new_rumors' = Append(new_rumors, handled'[1].rumors[1])
             ELSE /\ handled'[1].rumors = <<>>
                  /\ index' = index
                  /\ new_rumors' = new_rumors
       /\ WatchDone
          => /\ new_rumors = <<>> => outbox' = <<>>
             /\ pc' = "resume" /\ new_rumors # <<>>
                => outbox' = <<SendRumors(new_rumors, <<>>)>>]_vars

\* C18 witness: the Delete event of a live entry was handled and the deleted
\* entry went out to every peer
C18_Witness ==
    /\ handled # <<>> /\ handled[1].event.type = "Delete" /\ handled[1].committed
    /\ pc = "resume"
    /\ Len(handled[1].rumors) = 1 /\ handled[1].rumors[1].detail.deleted
    /\ outbox = <<SendRumors(handled[1].rumors, <<>>)>>

C20_RenameToMissing ==
    [][WatchHandled /\ E.type = "Rename" /\ dir[E.new_name] = <<>>
          /\ handled'[1].committed
       => LET rumors == handled'[1].rumors
              of(name) == {i \in 1..Len(rumors) : rumors[i].filename = name}
          IN  /\ \A name \in {E.name, E.new_name} :
                    IF Live(Held(name))
                    THEN \E i \in of(name) : of(name) = {i} /\ BumpedToDeleted(name, rumors[i])
                    ELSE of(name) = {} /\ index'[name] = index[name]
              /\ new_rumors' = new_rumors \o rumors]_vars

\* C21: in handle_watch_events every event has its own guard, committed before
\* the next event starts; when the handler of an event fails, the index stays as
\* the events before it committed it, the writes of the failing event are
\* dropped, and no later event of the batch is processed.
C21_WatchBatchCommits ==
    [][/\ WatchHandled /\ handled'[1].committed
          => /\ index' = handle_watch_event(index, dir, clock, E, FALSE).table
             /\ remaining' = remaining - 1
       /\ WatchHandled /\ ~handled'[1].ok
          => /\ index' = index
             /\ new_rumors' = new_rumors
             /\ remaining' = 0
       /\ (pc = "watch" /\ remaining = 0) => (index' = index /\ handled' = handled)]_vars

\* C21 witness: the second event of a batch failed after the first one had
\* created the entry of its file, which the index still holds
C21_Witness ==
    /\ pc = "watch" /\ remaining = 0
    /\ handled # <<>> /\ ~handled[1].ok
    /\ Len(new_rumors) = 1 /\ new_rumors[1].detail.gen = 1
    /\ index[new_rumors[1].filename] = create_file(index, new_rumors[1])[new_rumors[1].filename]

\* C22: a batch of watch events yields at most one SendRumors, emitted when
\* every event was processed or a handler error ended the batch; its except is
\* None and its rumors are the rumors accumulated so far, in the order of the
\* events; none is emitted when no rumor was accumulated.
C22_WatchRumorsSent ==
    [][/\ WatchHandled
          => /\ outbox' = <<>>
             /\ new_rumors' = IF handled'[1].committed
                              THEN new_rumors \o handled'[1].rumors ELSE new_rumors
       /\ WatchDone
          => /\ outbox = <<>>
             /\ outbox' \in {<<>>, <<SendRumors(new_rumors, <<>>)>>}
             /\ new_rumors = <<>> => outbox' = <<>>
       /\ (kind = "watch" /\ outbox' # outbox /\ outbox' # <<>>) => WatchDone]_vars

\* C22 witness: a batch of two events, the second of which failed, sent the
\* rumor of the first
C22_Witness ==
    /\ kind = "watch" /\ pc = "resume"
    /\ handled # <<>> /\ ~handled[1].ok
    /\ Len(outbox) = 1 /\ outbox[1].except = <<>> /\ Len(outbox[1].rumors) = 1

\* the sync-all of the step committed and sent its rumors
SyncAllDone == SyncAllHandled /\ pc' = "resume"

\* the entry the index holds for the name after the step is the bump of the one
\* it held to the detail given
SyncAllBumped(name, detail) ==
    index'[name] = update_file(index, Bumped(Held(name)[1], detail))[name]

ResultingIndex == {get_file(index', name)[1] : name \in {n \in DOMAIN index' : index'[n] # <<>>}}

\* C24: a successful sync-all emits exactly one SendRumors, with except = None,
\* whose rumors are the whole resulting index, every entry once whether it
\* changed or not; with no entry at all the rumor list is empty.
C24_SyncAllSendsAll ==
    [][/\ SyncAllDone
          => /\ outbox = <<>> /\ Len(outbox') = 1
             /\ outbox'[1].except = <<>>
             /\ Range(outbox'[1].rumors) = ResultingIndex
             /\ Len(outbox'[1].rumors) = Cardinality(ResultingIndex)
       /\ (kind = "sync_all" /\ outbox' # outbox /\ outbox' # <<>>) => SyncAllDone]_vars

\* C24 witness: a sync-all sent both entries of an index of two names, a deleted
\* one and a live one
C24_Witness ==
    /\ kind = "sync_all" /\ pc = "resume" /\ Len(outbox) = 1
    /\ Len(outbox[1].rumors) = 2
    /\ \E i, j \in 1..2 : /\ outbox[1].rumors[i].detail.deleted
                           /\ outbox[1].rumors[i].update_by = LocalUser
                           /\ ~outbox[1].rumors[j].detail.deleted
                           /\ outbox[1].rumors[j].detail.gen = 2

C26_HandlerFailureIsLocal ==
    [][/\ RumorHandled /\ last'[1].result = "err"
          => index' = index /\ pc' # "failed"
       /\ WatchHandled /\ ~handled'[1].committed
          => index' = index /\ pc' # "failed"]_vars

\* C27: when the event stream ends, run leaves its loop and returns, without an
\* error and without a panic: run is never at a panic.
C27_CleanTermination == pc # "panicked"

\* the call ended in an error at the operation named
FailedAt(call, op) ==
    call.result = "err" /\ call.log # <<>> /\ call.log[Len(call.log)] = op

\* C28: a file of the sync directory that is not found when it is opened or
\* removed is never fatal: no call of handle_rumor on a name that has no file
\* ends in the error of its open or of its remove_file, be it a rumor that
\* resurrects a deleted entry or an equal-gen delete that wins.
C28_NotFoundIsNotFatal ==
    [][RumorHandled /\ dir[R.filename] = <<>>
       => ~FailedAt(last'[1], "open") /\ ~FailedAt(last'[1], "remove_file")]_vars

\* the blocks tile a file: each offset is the sum of the lengths before it, every
\* block but the last is a full block and the last one is not empty
Tiling(blocks) ==
    /\ blocks # <<>>
    /\ blocks[1].offset = 0
    /\ \A i \in 1..(Len(blocks) - 1) :
          blocks[i].len = BLOCK_SIZE /\ blocks[i + 1].offset = blocks[i].offset + blocks[i].len
    /\ blocks[Len(blocks)].len \in 1..BLOCK_SIZE

\* C30: the BlockChain hash_file returns for a file is a tiling, whatever the
\* length of the file: here, of every file the sync directory holds.
C30_BlockChainTiles ==
    \A name \in DOMAIN dir :
        dir[name] # <<>> => Tiling(hash_file(dir[name][1]).block_chain.blocks)

\* nothing is in flight and both peers hold the same index entries
PairConverged ==
    /\ \A p \in Peers : pair.inbox[p] = <<>>
    /\ \A p, q \in Peers : pair.index[p] = pair.index[q]

\* no user changes a file any more and no peer has a SendRumors left to handle:
\* nothing more happens
PairAtRest ==
    /\ pair.quiet
    /\ \A p \in Peers : pair.running[p] => pair.inbox[p] = <<>>

\* C29: two peers that share a directory, with every SendRumors and every
\* requested block delivered: once no user changes a file any more, a state is
\* reached in which both peers hold equal index entries for every name and no
\* SendRumors is in flight or emitted. Every delivery takes one SendRumors away
\* and between two peers none is added, so the peers come to rest, and the
\* state they rest in must be that state.
C29_Converges == PairAtRest => PairConverged
\* the bytes of the i-th block of a chain, cut from the file the chain was made of
BlockBytes(data, blocks, i) ==
    [k \in 1..blocks[i].len |-> data[blocks[i].offset + k]]

\* C31: hash_file hashes each block over the bytes of that block only: two files
\* whose i-th blocks have the same bytes and length get the same i-th block hash,
\* whatever their other blocks hold; and the hash of the whole file is determined
\* by the bytes of the file.
C31_BlockHashOwnBytes ==
    \A i \in 1..Len(applied) :
        applied[i].op = "hash_file" =>
            LET c == applied[i]
                l == c.hashed_left.block_chain.blocks
                r == c.hashed_right.block_chain.blocks
            IN  /\ \A b \in (1..Len(l)) \cap (1..Len(r)) :
                      l[b].len > 0 /\ BlockBytes(c.left, l, b) = BlockBytes(c.right, r, b)
                          => l[b].hash_sum = r[b].hash_sum
                /\ c.left = c.right => c.hashed_left.hash_sum = c.hashed_right.hash_sum

\* the indices of the remote blocks that have no equal local block at the same index
Differing(remote, local) ==
    {i \in 1..Len(remote) :
        \/ i > Len(local)
        \/ remote[i].offset # local[i].offset
        \/ remote[i].len # local[i].len
        \/ remote[i].hash_sum # local[i].hash_sum}

\* the k-th smallest member of a set of numbers
Nth(S, k) == CHOOSE i \in S : Cardinality({j \in S : j < i}) = k - 1

\* C34: the requests for a remote and a local block list are, in remote order,
\* one request for each index i <= Len(remote) at which there is no local block or
\* the remote block differs from the local one in offset, len or hash; there is no
\* request for an equal block and none for a local block past the remote length;
\* with no local block chain every remote block is requested.
C34_DeltaRequests ==
    \A i \in 1..Len(applied) :
        applied[i].op = "compare_blocks" =>
            LET c == applied[i]
                local == IF c.local = <<>> THEN <<>> ELSE c.local[1].blocks
                picked == Differing(c.remote, local)
            IN  /\ Len(c.requests) = Cardinality(picked)
                /\ \A k \in 1..Len(c.requests) :
                      c.requests[k] = DownloadBlockRequest("a", c.remote[Nth(picked, k)])

\* a remote list of two blocks whose first block equals the local one and whose
\* second differs from it: one request, for the second block
C34_Witness ==
    /\ applied # <<>>
    /\ applied[1].op = "compare_blocks"
    /\ applied[1].local # <<>>
    /\ Len(applied[1].remote) = 2
    /\ Len(applied[1].local[1].blocks) = 2
    /\ applied[1].remote[1] = applied[1].local[1].blocks[1]
    /\ applied[1].requests = <<DownloadBlockRequest("a", applied[1].remote[2])>>
\* C32: when pausing the watcher fails for an event, run returns the error: the
\* event is not dispatched to a handler and no index guard is opened, so the
\* index, the rumors sent and the handlers' records stay as they are, then and
\* ever after.
C32_PauseFailureExits ==
    [][/\ (pc = "pause" /\ pc' # pc /\ watcher' # "paused")
          => (pc' = "failed" /\ index' = index /\ outbox' = outbox
              /\ last' = last /\ handled' = handled)
       /\ (pc = "failed")
          => (pc' = "failed" /\ index' = index /\ outbox' = outbox
              /\ last' = last /\ handled' = handled)]_vars

\* run has returned an error on an event that no handler has touched, with the
\* watcher still watching
C32_Witness ==
    /\ pc = "failed" /\ watcher = "watching" /\ kind \in {"watch", "rumors", "sync_all"}
    /\ outbox = <<>> /\ last = <<>> /\ handled = <<>>
    /\ \E n \in DOMAIN index : index[n] # <<>>
\* a deleted detail has the all-zero hash and no block chain; the current detail
\* of a live file has a block chain
DetailOk(detail, current) ==
    /\ detail.deleted => (detail.hash_sum = ZeroHash /\ detail.block_chain = <<>>)
    /\ (current /\ ~detail.deleted) => detail.block_chain # <<>>

EntryOk(index_file) ==
    /\ DetailOk(index_file.detail, TRUE)
    /\ \A i \in 1..Len(index_file.previous_details) :
          DetailOk(index_file.previous_details[i], FALSE)

\* C33: in every committed index entry and in every rumor the watch handler or
\* the sync-all handler produces, a detail with deleted = true has the all-zero
\* hash and no block chain, and a current detail that is not deleted has a block
\* chain.
C33_DeletedDetailIsZero ==
    /\ \A name \in DOMAIN index :
          get_file(index, name) # <<>> => EntryOk(get_file(index, name)[1])
    /\ \A i \in 1..Len(new_rumors) : EntryOk(new_rumors[i])
    /\ \A i \in 1..Len(handled) :
          \A j \in 1..Len(handled[i].rumors) : EntryOk(handled[i].rumors[j])
    /\ \A i \in 1..Len(outbox) :
          \A j \in 1..Len(outbox[i].rumors) : EntryOk(outbox[i].rumors[j])

\* a SendRumors of the peer carries a deleted entry and a live one
C33_Witness ==
    /\ outbox # <<>>
    /\ \E j \in 1..Len(outbox[1].rumors) : outbox[1].rumors[j].detail.deleted
    /\ \E j \in 1..Len(outbox[1].rumors) : ~outbox[1].rumors[j].detail.deleted
\* the call renamed its temp file onto the target path
Renamed(call) == Did(call.log, "rename") /\ ~FailedAt(call, "rename")

C36_BatchInArrivalOrder ==
    [][producer'.sent # producer.sent
       => LET batch == producer'.sent[1]
          IN  /\ batch.events = producer.channel
              /\ producer'.channel = <<>>
              /\ \A i, j \in 1..Len(batch.watch_events) :
                    i < j => batch.watch_events[i].raw <= batch.watch_events[j].raw]_vars
\* C37: every change a handler makes in the sync directory (a temp file
\* created or unlinked, a conflict file created, the target file written,
\* replaced or removed) is made with the watcher paused, before the resume of
\* that event. The user's own writes are the steps that change dir between two
\* events.
C37_MutationsWhilePaused ==
    [][(temps' # temps \/ conflicts' # conflicts \/ (pc # "next" /\ dir' # dir))
       => (watcher = "paused" /\ watcher' = "paused")]_vars
\* the target file is what the rumor says: absent for a deleted detail, a file
\* with the rumor's hash otherwise
FileReflects(file, remote_index_file) ==
    IF remote_index_file.detail.deleted
    THEN file = <<>>
    ELSE file # <<>> /\ hash_file(file[1]).hash_sum = remote_index_file.detail.hash_sum

\* C38: whenever handle_rumor returns, with Ok or with Err, the committed entry
\* and the target file go together: a target file that was replaced or removed
\* comes with a changed index entry, and a changed index entry comes with a
\* target file that is what the rumor says.
C38_IndexDiskCoupled ==
    [][RumorHandled
       => /\ dir'[R.filename] # dir[R.filename] => Committed # index[R.filename]
          /\ Committed # index[R.filename] => FileReflects(dir'[R.filename], R)]_vars
\* C39: a fast-forward that downloads blocks and ends with Ok(true), every block
\* asked for delivered, leaves the target file with the content of the remote
\* version, whatever the target file held when the rumor came: also a file the
\* user changed after its index entry was written.
C39_FastForwardContent ==
    [][/\ RumorHandled
       /\ last'[1].path = "ff" /\ last'[1].result = "new"
       /\ Did(last'[1].log, "download") /\ Delivered(last'[1])
       => dir'[R.filename] = <<last'[1].source>>]_vars

\* C40: no committed change is withheld from gossip: when a turn of the loop of a
\* watch batch or of a rumor batch ends the batch with an error, the changes the
\* earlier turns of the batch have committed are in a SendRumors put out for the
\* batch.
C40_CommittedChangesAreGossiped ==
    [][/\ pc \in {"rumors", "watch"} /\ remaining > 0
       /\ pc' = "failed" /\ new_rumors' # <<>>
       => /\ outbox' # outbox
          /\ outbox'[Len(outbox')].rumors = new_rumors']_vars
====
